---- MODULE Spec2Model ----
(***************************************************************************)
(* A model of the tabular comparison engine of fidc_data_check:            *)
(* CSVComparator.compare_dataframes and the four strategies it dispatches  *)
(* to (src/src/core/comparator.py).                                        *)
(*                                                                         *)
(* A DataFrame is a record [columns, dtypes, rows]: the set of column      *)
(* names, the dtype of every column as pandas stores it ("int64",          *)
(* "float64", "bool", "object") and the sequence of rows, each a function  *)
(* from the column names to cell values.  A cell value is a record         *)
(* [t, n, s]: t is the Python type of the cell ("null" for NaN/None,       *)
(* "int", "float", "bool", "str"), n its numeric value (numbers count a    *)
(* fixed unit, so |a - b| > tolerance is exact integer arithmetic) and s   *)
(* the text of a string as a sequence of one-character strings.            *)
(***************************************************************************)
EXTENDS Integers, Sequences, FiniteSets, TLC

VARIABLES df1, df2, config, comparison_type, pc, result

\* CSVLoader.load_csv (src/src/core/csv_loader.py): the file, the keyword
\* arguments, what detect_encoding returned, the encodings still to try,
\* the encodings pd.read_csv was called with, the encoding written to the
\* metadata, and where the call is
VARIABLES file, kwargs, detected, encodings_to_try, reads, metadata, loader_pc

\* run_complete_analysis (src/run_fund_analysis.py): the arguments, what
\* export_differences and export_formatted_differences do when called, the
\* steps run so far, differences_file, where the call is and what it returned
VARIABLES args, step1, step2, steps, differences_file, analysis_pc, returned

\* the compare command (src/csv_compare_cli.py): the command line, the
\* contents of the --config file, config_dict, the settings of the
\* CSVComparator built from it, and where the command is
VARIABLES argv, config_json, config_dict, settings, cli_pc

comparator_vars == <<df1, df2, config, comparison_type, pc, result>>

analysis_vars == <<args, step1, step2, steps, differences_file, analysis_pc, returned>>

cli_vars == <<argv, config_json, config_dict, settings, cli_pc>>

loader_vars == <<file, kwargs, detected, encodings_to_try, reads, metadata, loader_pc>>

vars == <<comparator_vars, loader_vars, analysis_vars, cli_vars>>

(***************************************************************************)
(* Cell values                                                             *)
(***************************************************************************)
NaN == [t |-> "null", n |-> 0, s |-> <<>>]

PyInt(i) == [t |-> "int", n |-> i, s |-> <<>>]

PyFloat(i) == [t |-> "float", n |-> i, s |-> <<>>]

PyBool(b) == [t |-> "bool", n |-> IF b THEN 1 ELSE 0, s |-> <<>>]

PyStr(chars) == [t |-> "str", n |-> 0, s |-> chars]

\* pd.isna / pd.notna of one cell
isna(v) == v.t = "null"

notna(v) == ~isna(v)

\* Python's == on two cells: numbers and booleans compare by value
\* (1 == 1.0 == True), strings by text, NaN equals nothing.
PyEq(a, b) ==
    IF a.t = "null" \/ b.t = "null" THEN FALSE
    ELSE IF a.t = "str" \/ b.t = "str" THEN a.t = b.t /\ a.s = b.s
    ELSE a.n = b.n

Abs(i) == IF i < 0 THEN -i ELSE i

EmptyDict == [k \in {} |-> TRUE]

(***************************************************************************)
(* Text: str.strip, str.lower and str() over one-character strings         *)
(***************************************************************************)
IsSpace(c) == c \in {" ", "\t"}

RECURSIVE LStrip(_)
LStrip(chars) ==
    IF chars # <<>> /\ IsSpace(Head(chars)) THEN LStrip(Tail(chars)) ELSE chars

RECURSIVE RStrip(_)
RStrip(chars) ==
    IF chars # <<>> /\ IsSpace(chars[Len(chars)])
    THEN RStrip(SubSeq(chars, 1, Len(chars) - 1))
    ELSE chars

Strip(chars) == RStrip(LStrip(chars))

\* LowerChar exchanging the two cases
LowerChar_SwapCase(c) ==
    CASE c = "A" -> "a" [] c = "B" -> "b" [] c = "X" -> "x" [] c = "Y" -> "y"
      [] c = "a" -> "A" [] c = "b" -> "B" [] c = "x" -> "X" [] c = "y" -> "Y"
      [] OTHER -> c

LowerChar(c) ==
    CASE c = "A" -> "a" [] c = "B" -> "b" [] c = "X" -> "x" [] c = "Y" -> "y"
      [] OTHER -> c

Lower(chars) == [i \in 1..Len(chars) |-> LowerChar(chars[i])]

DigitChars == <<"0", "1", "2", "3", "4", "5", "6", "7", "8", "9">>

RECURSIVE NatStr(_)
NatStr(i) ==
    IF i < 10 THEN <<DigitChars[i + 1]>>
    ELSE NatStr(i \div 10) \o <<DigitChars[(i % 10) + 1]>>

IntStr(i) == IF i < 0 THEN <<"-">> \o NatStr(-i) ELSE NatStr(i)

\* Python's str() of one cell
str(v) ==
    CASE v.t = "str" -> v.s
      [] v.t = "int" -> IntStr(v.n)
      [] v.t = "float" -> IntStr(v.n) \o <<".", "0">>
      [] v.t = "bool" -> IF v.n = 1 THEN <<"T", "r", "u", "e">>
                         ELSE <<"F", "a", "l", "s", "e">>
      [] OTHER -> <<"n", "a", "n">>

(***************************************************************************)
(* DataFrames                                                              *)
(***************************************************************************)
NumericDtypes == {"int64", "float64"}

\* df[cols]: the frame restricted to the columns cols
Restrict(df, cols) ==
    [columns |-> cols,
     dtypes |-> [c \in cols |-> df.dtypes[c]],
     rows |-> [i \in 1..Len(df.rows) |-> [c \in cols |-> df.rows[i][c]]]]

\* the cells of one column
ColumnValues(df, c) == {df.rows[i][c] : i \in 1..Len(df.rows)}

\* lib.infer_dtype(values, skipna=True) being one of the types the .str
\* accessor allows: "string", "empty", "mixed", "mixed-integer" (and not
\* "integer", "floating", "mixed-integer-float", "boolean")
StrAccessorOk(df, c) ==
    LET types == {v.t : v \in {w \in ColumnValues(df, c) : notna(w)}}
    IN  \/ types = {}
        \/ "str" \in types
        \/ ("bool" \in types /\ types # {"bool"})

\* Series.str.strip() / Series.str.lower(): applied to the strings, NaN for
\* every cell that is not a string
StrMethod(v, method) ==
    IF v.t # "str" THEN NaN
    ELSE IF method = "strip" THEN PyStr(Strip(v.s))
    ELSE PyStr(Lower(v.s))

MapObjectColumns(df, method) ==
    [df EXCEPT !.rows =
        [i \in 1..Len(df.rows) |->
            [c \in df.columns |->
                IF df.dtypes[c] = "object"
                THEN StrMethod(df.rows[i][c], method)
                ELSE df.rows[i][c]]]]

ObjectColumns(df) == {c \in df.columns : df.dtypes[c] = "object"}

\* DropIgnored that drops nothing
DropIgnored_KeepAll(df, cfg) == df

DropIgnored(df, cfg) == Restrict(df, df.columns \ cfg.ignore_columns)

StripStep(df, cfg) ==
    IF cfg.ignore_whitespace THEN MapObjectColumns(df, "strip") ELSE df

LowerStep(df, cfg) ==
    IF cfg.ignore_case THEN MapObjectColumns(df, "lower") ELSE df

\* CSVComparator._preprocess_dataframe: [err, df]
_preprocess_dataframe(df, cfg) ==
    LET dropped == DropIgnored(df, cfg)
        stripped == StripStep(dropped, cfg)
    IN  IF cfg.ignore_whitespace
           /\ \E c \in ObjectColumns(dropped) : ~StrAccessorOk(dropped, c)
        THEN [err |-> "AttributeError", df |-> dropped]
        ELSE IF cfg.ignore_case
                /\ \E c \in ObjectColumns(stripped) : ~StrAccessorOk(stripped, c)
        THEN [err |-> "AttributeError", df |-> stripped]
        ELSE [err |-> "none", df |-> LowerStep(stripped, cfg)]

(***************************************************************************)
(* pd.merge(left, right, on=keys, how='inner')                             *)
(***************************************************************************)
\* lib.infer_dtype(values, skipna=False) of one column, NaN counting as a
\* float
InferDtype(df, c) ==
    LET types == {IF v.t = "null" THEN "float" ELSE v.t : v \in ColumnValues(df, c)}
    IN  IF df.dtypes[c] = "int64" THEN "integer"
        ELSE IF df.dtypes[c] = "float64" THEN "floating"
        ELSE IF df.dtypes[c] = "bool" THEN "boolean"
        ELSE IF types = {} THEN "empty"
        ELSE IF types = {"str"} THEN "string"
        ELSE IF types = {"int"} THEN "integer"
        ELSE IF types = {"float"} THEN "floating"
        ELSE IF types = {"bool"} THEN "boolean"
        ELSE IF types = {"int", "float"} THEN "mixed-integer-float"
        ELSE IF "int" \in types THEN "mixed-integer"
        ELSE "mixed"

BoolTypes == {"integer", "mixed-integer", "boolean", "empty"}

StringTypes == {"string", "unicode", "mixed", "bytes", "empty"}

\* _MergeOperation._maybe_coerce_merge_keys: merging a numeric key column
\* with an object key column of string-like values raises ValueError; the
\* check is skipped when exactly one side has no rows
MergeKeyIncompatible(left, right, k) ==
    LET lobj == left.dtypes[k] = "object"
        robj == right.dtypes[k] = "object"
        lnum == left.dtypes[k] \in NumericDtypes
        rnum == right.dtypes[k] \in NumericDtypes
        il == InferDtype(left, k)
        ir == InferDtype(right, k)
    IN  /\ (Len(left.rows) = 0) = (Len(right.rows) = 0)
        /\ (lobj /\ rnum) \/ (lnum /\ robj)
        /\ ~(il \in BoolTypes /\ ir \in BoolTypes)
        /\ \/ (il \in StringTypes /\ ir \notin StringTypes)
           \/ (ir \in StringTypes /\ il \notin StringTypes)

\* two key cells match: equal values, or both null
MergeKeyEq(a, b) == (isna(a) /\ isna(b)) \/ PyEq(a, b)

RowsMatch(lrow, rrow, keys) ==
    \A n \in 1..Len(keys) : MergeKeyEq(lrow[keys[n]], rrow[keys[n]])

\* MatchesOf with the right side de-duplicated: the first matching row only
MatchesOf_FirstOnly(left, right, keys, i) ==
    LET all == SelectSeq([j \in 1..Len(right.rows) |-> j],
                         LAMBDA j : RowsMatch(left.rows[i], right.rows[j], keys))
    IN  IF all = <<>> THEN <<>> ELSE <<all[1]>>

\* the right rows matching left row i, in right order
MatchesOf(left, right, keys, i) ==
    SelectSeq([j \in 1..Len(right.rows) |-> j],
              LAMBDA j : RowsMatch(left.rows[i], right.rows[j], keys))

RECURSIVE MergeFrom(_, _, _, _)
MergeFrom(left, right, keys, i) ==
    IF i > Len(left.rows) THEN <<>>
    ELSE LET m == MatchesOf(left, right, keys, i)
         IN  [n \in 1..Len(m) |-> <<i, m[n]>>] \o MergeFrom(left, right, keys, i + 1)

\* the rows of the inner join, as pairs <<left row, right row>>: every left
\* row with every right row of the same key, in left order (pairs of one key
\* keep this relative order in every pandas version)
Merge(left, right, keys) == MergeFrom(left, right, keys, 1)

MergeRaises(left, right, keys) ==
    \E n \in 1..Len(keys) : MergeKeyIncompatible(left, right, keys[n])

(***************************************************************************)
(* Keyed FULL comparison                                                   *)
(***************************************************************************)
SeqToSet(q) == {q[n] : n \in 1..Len(q)}

SetMax(S) == CHOOSE x \in S : \A y \in S : y <= x

\* x / y in Python: a ratio, and ZeroDivisionError when y = 0
TrueDiv(x, y) == [num |-> x, den |-> y]

ZeroPercent == [num |-> 0, den |-> 1]

NA == PyStr(<<"N", "/", "A">>)

\* valid_keys = [col for col in self.key_columns if col in common_cols]
ValidKeys(cfg, common_cols) ==
    SelectSeq(cfg.key_columns, LAMBDA k : k \in common_cols)

\* ValueColumns keeping the key columns
ValueColumns_WithKeys(common_cols, valid_keys) == common_cols

\* value_columns = [col for col in common_cols if col not in valid_keys]
ValueColumns(common_cols, valid_keys) == common_cols \ SeqToSet(valid_keys)

\* the dtype of key column k in the merged frame
MergedKeyDtype(d1, d2, k) ==
    IF d1.dtypes[k] = d2.dtypes[k] THEN d1.dtypes[k]
    ELSE IF {d1.dtypes[k], d2.dtypes[k]} \subseteq NumericDtypes THEN "float64"
    ELSE "object"

\* DataFrame.iterrows yields each row as one Series, so the row has one
\* dtype: the common dtype of all columns of the merged frame
RowDtype(d1, d2, valid_keys, value_columns) ==
    LET dts == {MergedKeyDtype(d1, d2, k) : k \in SeqToSet(valid_keys)}
               \cup {d1.dtypes[c] : c \in value_columns}
               \cup {d2.dtypes[c] : c \in value_columns}
    IN  IF dts \subseteq NumericDtypes
        THEN (IF "float64" \in dts THEN "float64" ELSE "int64")
        ELSE IF dts = {"bool"} THEN "bool"
        ELSE "object"

\* a cell as the row Series holds it: an int in a float64 row is a float
RowCell(v, dtype) == IF dtype = "float64" /\ v.t = "int" THEN PyFloat(v.n) ELSE v

\* diff_mask for one merged row <<i, j>> and one value column
DiffMask(d1, d2, cfg, pair, col) ==
    LET a == d1.rows[pair[1]][col]
        b == d2.rows[pair[2]][col]
    IN  IF d1.dtypes[col] \in NumericDtypes /\ d2.dtypes[col] \in NumericDtypes
        THEN notna(a) /\ notna(b) /\ Abs(a.n - b.n) > cfg.float_tolerance
        ELSE ~((isna(a) /\ isna(b)) \/ PyEq(a, b))

RECURSIVE JoinStr(_)
JoinStr(parts) ==
    IF Len(parts) = 0 THEN <<>>
    ELSE IF Len(parts) = 1 THEN parts[1]
    ELSE parts[1] \o <<"_">> \o JoinStr(Tail(parts))

\* key_str = "_".join(str(row[k]) for k in valid_keys)
KeyStr(d1, d2, valid_keys, rowdtype, pair) ==
    JoinStr([n \in 1..Len(valid_keys) |->
        str(RowCell(RowCell(d1.rows[pair[1]][valid_keys[n]],
                            MergedKeyDtype(d1, d2, valid_keys[n])), rowdtype))])

\* row[col_internal] - row[col_fund] raises TypeError for a string operand,
\* and for two numpy booleans (a row Series of dtype bool)
SubRaises(a, b, rowdtype) ==
    notna(a) /\ notna(b) /\ (a.t = "str" \/ b.t = "str" \/ rowdtype = "bool")

Sub(a, b) ==
    IF a.t = "float" \/ b.t = "float" THEN PyFloat(a.n - b.n) ELSE PyInt(a.n - b.n)

\* the entry stored for one differing field of one merged row
DiffEntry(d1, d2, rowdtype, pair, col) ==
    LET a == RowCell(d1.rows[pair[1]][col], rowdtype)
        b == RowCell(d2.rows[pair[2]][col], rowdtype)
    IN  [internal |-> a,
         fund |-> b,
         difference |-> IF notna(a) /\ notna(b) THEN Sub(a, b) ELSE NA]

\* different_records after the loops over the value columns and the rows of
\* each diff_mask: under one key_str, the last masked row of each column wins
DifferentRecords(d1, d2, cfg, merged, valid_keys, value_columns) ==
    LET rowdtype == RowDtype(d1, d2, valid_keys, value_columns)
        ks(n) == KeyStr(d1, d2, valid_keys, rowdtype, merged[n])
        masked(c) == {n \in 1..Len(merged) : DiffMask(d1, d2, cfg, merged[n], c)}
        keystrs == {ks(n) : n \in UNION {masked(c) : c \in value_columns}}
    IN  [k \in keystrs |->
            [c \in {x \in value_columns : \E n \in masked(x) : ks(n) = k} |->
                DiffEntry(d1, d2, rowdtype,
                          merged[SetMax({n \in masked(c) : ks(n) = k})], c)]]

\* the subtraction of line 289 raises for some masked row
DifferenceRaises(d1, d2, cfg, merged, valid_keys, value_columns) ==
    LET rowdtype == RowDtype(d1, d2, valid_keys, value_columns)
    IN  \E c \in value_columns : \E n \in 1..Len(merged) :
            /\ DiffMask(d1, d2, cfg, merged[n], c)
            /\ SubRaises(RowCell(d1.rows[merged[n][1]][c], rowdtype),
                         RowCell(d2.rows[merged[n][2]][c], rowdtype), rowdtype)

\* IdenticalRecords counting the differing fields instead of the records
IdenticalRecords_CountFields(merged, different_records) ==
    Len(merged) - Cardinality(UNION {{<<k, c>> : c \in DOMAIN different_records[k]} :
                                        k \in DOMAIN different_records})

\* IdenticalRecords without the subtraction
IdenticalRecords_AllMatched(merged, different_records) == Len(merged)

\* identical_records = len(merged_inner) - len(different_records)
IdenticalRecords(merged, different_records) ==
    Len(merged) - Cardinality(DOMAIN different_records)

\* MatchPercentage without the common_records > 0 guard
MatchPercentage_Unguarded(identical_records, common_records) ==
    TrueDiv(identical_records * 100, common_records)

\* MatchPercentage giving 100 when nothing matched
MatchPercentage_FullWhenEmpty(identical_records, common_records) ==
    IF common_records > 0 THEN TrueDiv(identical_records * 100, common_records)
    ELSE [num |-> 100, den |-> 1]

\* 'match_percentage'
MatchPercentage(identical_records, common_records) ==
    IF common_records > 0 THEN TrueDiv(identical_records * 100, common_records)
    ELSE ZeroPercent

\* 'coverage_percentage'
CoveragePercentage(common_records, total_fund_records) ==
    IF total_fund_records > 0 THEN TrueDiv(common_records * 100, total_fund_records)
    ELSE ZeroPercent

Outcome(err, strategy, summary, differences, statistics) ==
    [err |-> err, strategy |-> strategy, summary |-> summary,
     differences |-> differences, statistics |-> statistics]

Raised(err, strategy) == Outcome(err, strategy, EmptyDict, EmptyDict, EmptyDict)

\* CSVComparator._compare_by_key
_compare_by_key(d1, d2, cfg, common_cols) ==
    LET valid_keys == ValidKeys(cfg, common_cols)
        c1 == Restrict(d1, common_cols)
        c2 == Restrict(d2, common_cols)
        merged == Merge(c1, c2, valid_keys)
        value_columns == ValueColumns(common_cols, valid_keys)
        different_records ==
            IF Len(merged) > 0
            THEN DifferentRecords(c1, c2, cfg, merged, valid_keys, value_columns)
            ELSE EmptyDict
        identical_records ==
            IF Len(merged) > 0 THEN IdenticalRecords(merged, different_records) ELSE 0
        match == MatchPercentage(identical_records, Len(merged))
        coverage == CoveragePercentage(Len(merged), Len(c2.rows))
    IN  IF valid_keys = <<>>
        THEN Outcome("none", "full",
                     [data_identical |-> FALSE,
                      reason |-> "Key columns not found in both files"],
                     EmptyDict, EmptyDict)
        ELSE IF MergeRaises(c1, c2, valid_keys) THEN Raised("ValueError", "full")
        ELSE IF DifferenceRaises(c1, c2, cfg, merged, valid_keys, value_columns)
        THEN Raised("TypeError", "full")
        ELSE IF match.den = 0 \/ coverage.den = 0
        THEN Raised("ZeroDivisionError", "full")
        ELSE Outcome("none", "full",
                     [data_identical |-> Cardinality(DOMAIN different_records) = 0,
                      identical_records |-> identical_records,
                      total_internal_records |-> Len(c1.rows),
                      total_fund_records |-> Len(c2.rows),
                      common_cession_records |-> Len(merged),
                      different_records |-> Cardinality(DOMAIN different_records),
                      match_percentage |-> match,
                      coverage_percentage |-> coverage],
                     [different_records |-> different_records,
                      total_different_records |-> Cardinality(DOMAIN different_records),
                      comparison_method |-> "cession_matching",
                      key_columns_used |-> valid_keys,
                      value_columns_compared |-> value_columns],
                     EmptyDict)

\* _compare_full testing the key columns before the common columns
_compare_full_KeysFirst(d1, d2, cfg) ==
    LET common_cols == d1.columns \cap d2.columns
    IN  IF cfg.key_columns # <<>>
           /\ \A k \in SeqToSet(cfg.key_columns) : k \in common_cols
        THEN _compare_by_key(d1, d2, cfg, common_cols)
        ELSE IF cfg.key_columns # <<>>
        THEN Outcome("none", "full",
                     [data_identical |-> FALSE,
                      reason |-> "Key columns (NumeroContrato) required for cession comparison"],
                     EmptyDict, EmptyDict)
        ELSE Outcome("none", "full",
                     [data_identical |-> FALSE,
                      reason |-> "No common columns for comparison"],
                     EmptyDict, EmptyDict)

\* _compare_full with any() in place of all() in the key-column test
_compare_full_AnyKey(d1, d2, cfg) ==
    LET common_cols == d1.columns \cap d2.columns
    IN  IF common_cols = {}
        THEN Outcome("none", "full",
                     [data_identical |-> FALSE,
                      reason |-> "No common columns for comparison"],
                     EmptyDict, EmptyDict)
        ELSE IF cfg.key_columns # <<>>
                /\ \E k \in SeqToSet(cfg.key_columns) : k \in common_cols
        THEN _compare_by_key(d1, d2, cfg, common_cols)
        ELSE Outcome("none", "full",
                     [data_identical |-> FALSE,
                      reason |-> "Key columns (NumeroContrato) required for cession comparison"],
                     EmptyDict, EmptyDict)

\* CSVComparator._compare_full
_compare_full(d1, d2, cfg) ==
    LET common_cols == d1.columns \cap d2.columns
    IN  IF common_cols = {}
        THEN Outcome("none", "full",
                     [data_identical |-> FALSE,
                      reason |-> "No common columns for comparison"],
                     EmptyDict, EmptyDict)
        ELSE IF cfg.key_columns # <<>>
                /\ \A k \in SeqToSet(cfg.key_columns) : k \in common_cols
        THEN _compare_by_key(d1, d2, cfg, common_cols)
        ELSE Outcome("none", "full",
                     [data_identical |-> FALSE,
                      reason |-> "Key columns (NumeroContrato) required for cession comparison"],
                     EmptyDict, EmptyDict)

(***************************************************************************)
(* Schema comparison                                                       *)
(***************************************************************************)
\* _compare_schema with the two missing-column sets exchanged
_compare_schema_Swapped(d1, d2) ==
    LET cols1 == d1.columns
        cols2 == d2.columns
        common_columns == cols1 \cap cols2
        type_mismatches ==
            [c \in {x \in common_columns : d1.dtypes[x] # d2.dtypes[x]} |->
                [df1 |-> d1.dtypes[c], df2 |-> d2.dtypes[c]]]
    IN  Outcome("none", "schema",
                [columns_match |-> cols1 = cols2,
                 types_match |-> DOMAIN type_mismatches = {},
                 total_columns_df1 |-> Cardinality(cols1),
                 total_columns_df2 |-> Cardinality(cols2),
                 common_columns |-> Cardinality(common_columns)],
                [missing_in_df2 |-> cols2 \ cols1,
                 missing_in_df1 |-> cols1 \ cols2,
                 type_mismatches |-> type_mismatches],
                EmptyDict)

\* CSVComparator._compare_schema
_compare_schema(d1, d2) ==
    LET cols1 == d1.columns
        cols2 == d2.columns
        missing_in_df2 == cols1 \ cols2
        missing_in_df1 == cols2 \ cols1
        common_columns == cols1 \cap cols2
        type_mismatches ==
            [c \in {x \in common_columns : d1.dtypes[x] # d2.dtypes[x]} |->
                [df1 |-> d1.dtypes[c], df2 |-> d2.dtypes[c]]]
    IN  Outcome("none", "schema",
                [columns_match |-> missing_in_df1 = {} /\ missing_in_df2 = {},
                 types_match |-> DOMAIN type_mismatches = {},
                 total_columns_df1 |-> Cardinality(cols1),
                 total_columns_df2 |-> Cardinality(cols2),
                 common_columns |-> Cardinality(common_columns)],
                [missing_in_df2 |-> missing_in_df2,
                 missing_in_df1 |-> missing_in_df1,
                 type_mismatches |-> type_mismatches],
                EmptyDict)

(***************************************************************************)
(* Subset comparison                                                       *)
(***************************************************************************)
RECURSIVE SetToSeq(_)
SetToSeq(S) ==
    IF S = {} THEN <<>>
    ELSE LET x == CHOOSE y \in S : TRUE IN <<x>> \o SetToSeq(S \ {x})

\* two rows are duplicates of each other over the columns cols
SameRow(r1, r2, cols) == \A c \in cols : MergeKeyEq(r1[c], r2[c])

\* DataFrame.drop_duplicates(): the first of every group of equal rows
DropDuplicates(df) ==
    LET keep == SelectSeq([i \in 1..Len(df.rows) |-> i],
                    LAMBDA i : \A j \in 1..(i - 1) :
                        ~SameRow(df.rows[j], df.rows[i], df.columns))
    IN  [df EXCEPT !.rows = [n \in 1..Len(keep) |-> df.rows[keep[n]]]]

\* CSVComparator._compare_subset
_compare_subset(d1, d2) ==
    LET common_cols == d1.columns \cap d2.columns
        s1 == DropDuplicates(Restrict(d1, common_cols))
        s2 == DropDuplicates(Restrict(d2, common_cols))
        on == SetToSeq(common_cols)
        merged == Merge(s1, s2, on)
    IN  IF common_cols = {}
        THEN Outcome("none", "subset",
                     [is_subset |-> FALSE, reason |-> "No common columns"],
                     EmptyDict, EmptyDict)
        ELSE IF MergeRaises(s1, s2, on) THEN Raised("ValueError", "subset")
        ELSE Outcome("none", "subset",
                     [is_subset |-> Len(merged) = Len(s1.rows),
                      common_columns |-> Cardinality(common_cols),
                      unique_rows_df1 |-> Len(s1.rows),
                      unique_rows_df2 |-> Len(s2.rows),
                      matching_rows |-> Len(merged)],
                     EmptyDict, EmptyDict)

(***************************************************************************)
(* Statistical comparison                                                  *)
(***************************************************************************)
\* a statistic: NaN, or the ratio num / den
StatNaN == [nan |-> TRUE, num |-> 0, den |-> 1]

Stat(num, den) == [nan |-> FALSE, num |-> num, den |-> den]

RECURSIVE SumOver(_, _, _)
SumOver(df, c, i) ==
    IF i > Len(df.rows) THEN 0
    ELSE (IF notna(df.rows[i][c]) THEN df.rows[i][c].n ELSE 0) + SumOver(df, c, i + 1)

RECURSIVE SumSqOver(_, _, _)
SumSqOver(df, c, i) ==
    IF i > Len(df.rows) THEN 0
    ELSE (IF notna(df.rows[i][c]) THEN df.rows[i][c].n * df.rows[i][c].n ELSE 0)
         + SumSqOver(df, c, i + 1)

\* Series.count(): the cells that are not null
Count(df, c) == Cardinality({i \in 1..Len(df.rows) : notna(df.rows[i][c])})

\* Series.mean() and Series.std() raise TypeError over strings
ReduceRaises(df, c) == \E v \in ColumnValues(df, c) : v.t = "str"

\* Series.mean(), nulls skipped
Mean(df, c) ==
    IF Count(df, c) = 0 THEN StatNaN ELSE Stat(SumOver(df, c, 1), Count(df, c))

\* the square of Series.std() (ddof = 1), nulls skipped
Variance(df, c) ==
    LET n == Count(df, c)
        sum == SumOver(df, c, 1)
    IN  IF n < 2 THEN StatNaN
        ELSE Stat(n * SumSqOver(df, c, 1) - sum * sum, n * (n - 1))

\* AbsDifference without abs: a - b
AbsDifference_Signed(a, b) ==
    IF a.nan \/ b.nan THEN StatNaN
    ELSE Stat(a.num * b.den - b.num * a.den, a.den * b.den)

\* abs(a - b) of two statistics
AbsDifference(a, b) ==
    IF a.nan \/ b.nan THEN StatNaN
    ELSE Stat(Abs(a.num * b.den - b.num * a.den), a.den * b.den)

\* a statistic > float_tolerance (False for NaN)
Exceeds(x, tolerance) == ~x.nan /\ x.num > tolerance * x.den

\* the part of DataFrame.describe(include='all') the model keeps, per column
Describe(df) ==
    [c \in df.columns |->
        IF df.dtypes[c] \in NumericDtypes
        THEN [count |-> Count(df, c), mean |-> Mean(df, c), var |-> Variance(df, c)]
        ELSE [count |-> Count(df, c),
              mean |-> StatNaN,
              var |-> StatNaN]]

\* df.isnull().sum().to_dict()
NullCounts(df) == [c \in df.columns |-> Len(df.rows) - Count(df, c)]

\* one entry of numeric_diffs; std_difference is |sqrt(var1) - sqrt(var2)|,
\* kept as the two variances
NumericDiff(d1, d2, cfg, c) ==
    IF ReduceRaises(d2, c)
    THEN [error |-> "Could not compare numeric values"]
    ELSE [mean_difference |-> AbsDifference(Mean(d1, c), Mean(d2, c)),
          std_difference |-> [var1 |-> Variance(d1, c), var2 |-> Variance(d2, c)],
          significant_difference |->
              Exceeds(AbsDifference(Mean(d1, c), Mean(d2, c)), cfg.float_tolerance)]

\* CSVComparator._compare_statistics
_compare_statistics(d1, d2, cfg) ==
    LET numeric_cols == {c \in d1.columns : d1.dtypes[c] \in NumericDtypes}
        numeric_diffs ==
            [c \in numeric_cols \cap d2.columns |-> NumericDiff(d1, d2, cfg, c)]
    IN  IF d1.columns = {} \/ d2.columns = {}
        THEN Raised("ValueError", "statistical")
        ELSE Outcome("none", "statistical",
                     [shape_match |-> Len(d1.rows) = Len(d2.rows)
                                      /\ Cardinality(d1.columns) = Cardinality(d2.columns),
                      rows_df1 |-> Len(d1.rows),
                      rows_df2 |-> Len(d2.rows),
                      columns_df1 |-> Cardinality(d1.columns),
                      columns_df2 |-> Cardinality(d2.columns)],
                     [numeric_differences |-> numeric_diffs],
                     [df1_stats |-> Describe(d1),
                      df2_stats |-> Describe(d2),
                      df1_nulls |-> NullCounts(d1),
                      df2_nulls |-> NullCounts(d2)])

(***************************************************************************)
(* compare_dataframes                                                      *)
(***************************************************************************)
\* class ComparisonType(Enum)
ComparisonType == {"schema", "full", "statistical", "subset"}

\* the if / elif / else of compare_dataframes on the preprocessed frames
Dispatch(d1, d2, type, cfg) ==
    IF type = "schema" THEN _compare_schema(d1, d2)
    ELSE IF type = "statistical" THEN _compare_statistics(d1, d2, cfg)
    ELSE IF type = "subset" THEN _compare_subset(d1, d2)
    ELSE _compare_full(d1, d2, cfg)

\* CSVComparator.compare_dataframes: the outcome of one call
CompareDataframes(d1, d2, type, cfg) ==
    LET p1 == _preprocess_dataframe(d1, cfg)
        p2 == _preprocess_dataframe(d2, cfg)
    IN  IF p1.err # "none" THEN Raised(p1.err, "none")
        ELSE IF p2.err # "none" THEN Raised(p2.err, "none")
        ELSE Dispatch(p1.df, p2.df, type, cfg)

NoResult == Outcome("none", "none", EmptyDict, EmptyDict, EmptyDict)

\* Copy handing the caller's own object to the preprocessing
Copy_SameObject(df) == [object |-> "input", data |-> df]

\* df.copy(): a new object that holds the same data
Copy(df) == [object |-> "copy", data |-> df]

\* the object the item assignments of the strip and lower steps write to:
\* df.drop returns a new frame, otherwise it is the object handed in
WrittenObject(handle, cfg) ==
    IF cfg.ignore_columns # {} THEN "dropped" ELSE handle.object

\* the caller's dataset after _preprocess_dataframe(df.copy()) ran
InputAfter(df, cfg) ==
    LET handle == Copy(df)
        p == _preprocess_dataframe(handle.data, cfg)
    IN  IF WrittenObject(handle, cfg) = "input"
           /\ (cfg.ignore_whitespace \/ cfg.ignore_case)
        THEN p.df
        ELSE df

\* one call of compare_dataframes: it returns a result or raises; nothing
\* in the call assigns to the configuration
compare_dataframes ==
    /\ pc = "start"
    /\ result' = CompareDataframes(df1, df2, comparison_type, config)
    /\ pc' = IF result'.err = "none" THEN "done" ELSE "raised"
    /\ df1' = InputAfter(df1, config)
    /\ df2' = IF _preprocess_dataframe(df1, config).err # "none" THEN df2
              ELSE InputAfter(df2, config)
    /\ UNCHANGED <<config, comparison_type>>
    /\ UNCHANGED <<loader_vars, analysis_vars, cli_vars>>

Next == compare_dataframes

(***************************************************************************)
(* Inputs: bounded families of DataFrames and configurations               *)
(***************************************************************************)
\* rows per dataset in the keyed families
MaxRows == 2

\* rows per dataset in the duplicate-key family
MaxDupRows == 3

\* rows per dataset in the dispatch family
MaxGenRows == 1

SeqsUpTo(S, n) == UNION {[1..m -> S] : m \in 0..n}

Frame(dtypes, rows) ==
    [columns |-> DOMAIN dtypes, dtypes |-> dtypes, rows |-> rows]

Config(tolerance, ignore_case, ignore_whitespace, ignore_columns, key_columns) ==
    [float_tolerance |-> tolerance,
     ignore_case |-> ignore_case,
     ignore_whitespace |-> ignore_whitespace,
     ignore_columns |-> ignore_columns,
     key_columns |-> key_columns]

\* the cells of the value column "v", per family
FloatCells == {NaN, PyFloat(0), PyFloat(2)}

TextCells == {NaN, PyStr(<<"x">>), PyStr(<<"y">>)}

NumberCells == {PyFloat(0), PyFloat(2)}

\* an object column that holds numbers, alone or beside text
MixedCells == {PyFloat(0), PyFloat(2), PyStr(<<"x">>)}

BoolCells == {PyBool(TRUE), PyBool(FALSE)}

Tolerances == {1, 2}

\* key 1 with every cell, key 2 with one cell
KeyedRows(cells, other) ==
    {[id |-> PyInt(1), v |-> x] : x \in cells} \cup {[id |-> PyInt(2), v |-> other]}

KeyedFrame(dtype, rows) == Frame([id |-> "int64", v |-> dtype], rows)

\* both datasets have the key column "id" and one value column "v" of the
\* given dtypes; FULL mode keyed on "id"
InitKeyedFamily(dtype1, cells1, dtype2, cells2, tolerances, whitespace) ==
    /\ \E r1 \in SeqsUpTo(KeyedRows(cells1, CHOOSE x \in cells1 : notna(x)), MaxRows) :
          df1 = KeyedFrame(dtype1, r1)
    /\ \E r2 \in SeqsUpTo(KeyedRows(cells2, CHOOSE x \in cells2 : notna(x)), MaxRows) :
          df2 = KeyedFrame(dtype2, r2)
    /\ \E t \in tolerances : \E ws \in whitespace :
          config = Config(t, FALSE, ws, {}, <<"id">>)
    /\ comparison_type = "full"

InitKeyed ==
    \/ InitKeyedFamily("float64", FloatCells, "float64", FloatCells, Tolerances, {TRUE})
    \/ InitKeyedFamily("object", TextCells, "object", TextCells, {1}, {TRUE})
    \/ InitKeyedFamily("object", MixedCells, "object", MixedCells, {2}, BOOLEAN)
    \/ InitKeyedFamily("bool", BoolCells, "bool", BoolCells, {1}, {TRUE})
    \/ InitKeyedFamily("float64", NumberCells, "object", TextCells, {1}, {TRUE})

\* two value columns "v" and "w", one key value
TwoColumnRows == {[id |-> PyInt(1), v |-> x, w |-> y] :
                     x \in NumberCells, y \in NumberCells}

InitTwoColumns ==
    /\ \E r1 \in SeqsUpTo(TwoColumnRows, MaxRows) :
          df1 = Frame([id |-> "int64", v |-> "float64", w |-> "float64"], r1)
    /\ \E r2 \in SeqsUpTo(TwoColumnRows, MaxRows) :
          df2 = Frame([id |-> "int64", v |-> "float64", w |-> "float64"], r2)
    /\ config = Config(1, FALSE, TRUE, {}, <<"id">>)
    /\ comparison_type = "full"

\* repeated key values, one value per side
InitDuplicates ==
    /\ \E r1 \in SeqsUpTo(KeyedRows({PyFloat(0)}, PyFloat(0)), MaxDupRows) :
          df1 = KeyedFrame("float64", r1)
    /\ \E r2 \in SeqsUpTo(KeyedRows({PyFloat(0)}, PyFloat(0)), MaxDupRows) :
          df2 = KeyedFrame("float64", r2)
    /\ config = Config(1, FALSE, TRUE, {}, <<"id">>)
    /\ comparison_type = "full"

\* every column set, every mode (and a value that is no ComparisonType
\* member), key columns and ignored columns that may or may not exist
AllColumns == [id |-> "int64", v |-> "float64", w |-> "object"]

Row1 == [id |-> PyInt(1), v |-> PyFloat(0), w |-> PyStr(<<"x">>)]

Row2Variants == {Row1, [id |-> PyInt(1), v |-> PyFloat(2), w |-> PyStr(<<" ", "x">>)]}

GenFrame(cols, row, n) ==
    Frame([c \in cols |-> AllColumns[c]], [i \in 1..n |-> [c \in cols |-> row[c]]])

InitDispatch ==
    /\ \E cols \in SUBSET DOMAIN AllColumns : \E n \in 0..MaxGenRows :
          df1 = GenFrame(cols, Row1, n)
    /\ \E cols \in SUBSET DOMAIN AllColumns : \E n \in 0..MaxGenRows :
          \E row \in Row2Variants : df2 = GenFrame(cols, row, n)
    /\ \E keys \in {<<>>, <<"id">>, <<"id", "v">>} :
          \E ignored \in {{}, {"id"}, {"w", "z"}} :
             config = Config(1, FALSE, TRUE, ignored, keys)
    /\ comparison_type \in ComparisonType \cup {"invalid"}

\* the dtypes of "id" and "v" differ between the two datasets, every mode
TypedCell(c, dtype) ==
    IF dtype = "object" THEN (IF c = "id" THEN PyStr(<<"1">>) ELSE PyStr(<<"x">>))
    ELSE IF dtype = "int64" THEN PyInt(1)
    ELSE PyFloat(2)

TypedFrame(iddtype, vdtype, n) ==
    Frame([id |-> iddtype, v |-> vdtype],
          [i \in 1..n |-> [id |-> TypedCell("id", iddtype), v |-> TypedCell("v", vdtype)]])

InitTypes ==
    /\ \E t \in {"int64", "object"} : \E u \in {"int64", "float64", "object"} :
          \E n \in 0..MaxGenRows : df1 = TypedFrame(t, u, n)
    /\ \E t \in {"int64", "object"} : \E u \in {"int64", "float64", "object"} :
          \E n \in 0..MaxGenRows : df2 = TypedFrame(t, u, n)
    /\ config = Config(1, FALSE, TRUE, {}, <<"id">>)
    /\ comparison_type \in ComparisonType

\* numeric columns with nulls and repeated rows, STATISTICAL and SUBSET
StatisticsRows == {[id |-> PyInt(1), v |-> x] : x \in FloatCells \cup {PyFloat(6)}}

InitStatistics ==
    /\ \E r1 \in SeqsUpTo(StatisticsRows, MaxRows) : df1 = KeyedFrame("float64", r1)
    /\ \E r2 \in SeqsUpTo(StatisticsRows, MaxRows) : df2 = KeyedFrame("float64", r2)
    /\ \E t \in Tolerances : config = Config(t, FALSE, TRUE, {}, <<"id">>)
    /\ comparison_type \in {"statistical", "subset"}

\* an object column that holds text with whitespace and capitals beside
\* nulls, numbers and booleans; every preprocessing option
PreprocessCells ==
    {NaN, PyStr(<<" ", "X">>), PyStr(<<"x">>), PyFloat(0), PyBool(TRUE)}

InitPreprocess ==
    /\ \E r1 \in SeqsUpTo({[id |-> PyInt(1), w |-> x] : x \in PreprocessCells}, MaxRows) :
          df1 = Frame([id |-> "int64", w |-> "object"], r1)
    /\ \E x \in {PyStr(<<"x">>), PyStr(<<"X", " ">>)} :
          df2 = Frame([id |-> "int64", w |-> "object"], <<[id |-> PyInt(1), w |-> x]>>)
    /\ \E case \in BOOLEAN : \E ws \in BOOLEAN : \E ignored \in {{}, {"w"}} :
          config = Config(1, case, ws, ignored, <<"id">>)
    /\ comparison_type \in {"schema", "full"}

\* two text key columns whose values contain the separator "_"
CompositeKeys ==
    {<<PyStr(<<"a", "_", "b">>), PyStr(<<"c">>)>>,
     <<PyStr(<<"a">>), PyStr(<<"b", "_", "c">>)>>}

CompositeRows ==
    {[id |-> k[1], w |-> k[2], v |-> x] : k \in CompositeKeys, x \in NumberCells}

InitCompositeKeys ==
    /\ \E r1 \in SeqsUpTo(CompositeRows, MaxRows) :
          df1 = Frame([id |-> "object", w |-> "object", v |-> "float64"], r1)
    /\ \E r2 \in SeqsUpTo(CompositeRows, MaxRows) :
          df2 = Frame([id |-> "object", w |-> "object", v |-> "float64"], r2)
    /\ config = Config(1, FALSE, TRUE, {}, <<"id", "w">>)
    /\ comparison_type = "full"

\* no load_csv call is under way
LoaderIdle ==
    /\ file = [exists |-> FALSE, readable |-> {}]
    /\ kwargs = [encoding |-> "absent"]
    /\ detected = "utf-8"
    /\ encodings_to_try = <<>>
    /\ reads = <<>>
    /\ metadata = [encoding |-> "none"]
    /\ loader_pc = "idle"

\* no run_complete_analysis call is under way
AnalysisIdle ==
    /\ args = [fund_alias |-> "pi", reference_date |-> "2025-05-30",
               output_format |-> "excel", skip_comparison |-> FALSE]
    /\ step1 = "raises"
    /\ step2 = "ImportError"
    /\ steps = <<>>
    /\ differences_file = "unbound"
    /\ analysis_pc = "idle"
    /\ returned = "none"

\* no compare command is under way
CliIdle ==
    /\ argv = EmptyDict
    /\ config_json = EmptyDict
    /\ config_dict = EmptyDict
    /\ settings = EmptyDict
    /\ cli_pc = "idle"

Init ==
    /\ LoaderIdle
    /\ AnalysisIdle
    /\ CliIdle
    /\ pc = "start"
    /\ result = NoResult
    /\ \/ InitKeyed
       \/ InitTwoColumns
       \/ InitDuplicates
       \/ InitDispatch
       \/ InitTypes
       \/ InitStatistics
       \/ InitPreprocess
       \/ InitCompositeKeys

Spec == Init /\ [][Next]_vars

(***************************************************************************)
(* CSVLoader.load_csv                                                      *)
(***************************************************************************)
\* self.supported_encodings
supported_encodings == <<"utf-8", "latin-1", "cp1252", "iso-8859-1">>

\* encoding = kwargs.get('encoding', self.detect_encoding(file_path))
FirstEncoding(kw, det) == IF kw.encoding # "absent" THEN kw.encoding ELSE det

\* [encoding] + [enc for enc in self.supported_encodings if enc != encoding]
EncodingsToTry(kw, det) ==
    <<FirstEncoding(kw, det)>>
        \o SelectSeq(supported_encodings, LAMBDA e : e # FirstEncoding(kw, det))

\* params = {'encoding': enc, ..., **kwargs}: the encoding pd.read_csv gets;
\* a keyword argument 'encoding' replaces the one of the loop
ReadEncoding(kw, enc) == IF kw.encoding # "absent" THEN kw.encoding ELSE enc

\* the existence test and the list of encodings to try
load_csv_start ==
    /\ loader_pc = "start"
    /\ IF ~file.exists
       THEN /\ loader_pc' = "FileNotFoundError"
            /\ UNCHANGED encodings_to_try
       ELSE /\ loader_pc' = "loop"
            /\ encodings_to_try' = EncodingsToTry(kwargs, detected)
    /\ UNCHANGED <<file, kwargs, detected, reads, metadata>>
    /\ UNCHANGED <<comparator_vars, analysis_vars, cli_vars>>

\* one pass of the loop: pd.read_csv succeeds and the call returns, or it
\* raises and the loop goes on
load_csv_try ==
    /\ loader_pc = "loop"
    /\ encodings_to_try # <<>>
    /\ LET enc == Head(encodings_to_try)
           used == ReadEncoding(kwargs, enc)
       IN  /\ reads' = Append(reads, used)
           /\ IF used \in file.readable
              THEN /\ metadata' = [encoding |-> enc]
                   /\ loader_pc' = "returned"
                   /\ UNCHANGED encodings_to_try
              ELSE /\ encodings_to_try' = Tail(encodings_to_try)
                   /\ UNCHANGED <<metadata, loader_pc>>
    /\ UNCHANGED <<file, kwargs, detected>>
    /\ UNCHANGED <<comparator_vars, analysis_vars, cli_vars>>

\* every encoding failed: raise ValueError
load_csv_fail ==
    /\ loader_pc = "loop"
    /\ encodings_to_try = <<>>
    /\ loader_pc' = "ValueError"
    /\ UNCHANGED <<file, kwargs, detected, encodings_to_try, reads, metadata>>
    /\ UNCHANGED <<comparator_vars, analysis_vars, cli_vars>>

LoaderNext == load_csv_start \/ load_csv_try \/ load_csv_fail

\* the encodings a read of the file may succeed with, by name
EncodingNames == {"utf-8", "latin-1", "cp1252", "iso-8859-1", "Windows-1252"}

\* no comparison is under way
ComparatorIdle ==
    /\ df1 = Frame(EmptyDict, <<>>)
    /\ df2 = Frame(EmptyDict, <<>>)
    /\ config = Config(1, FALSE, TRUE, {}, <<>>)
    /\ comparison_type = "full"
    /\ pc = "idle"
    /\ result = NoResult

\* a file that exists or not and is readable under any set of encodings,
\* an explicit encoding or none, any detected encoding
LoaderInit ==
    /\ ComparatorIdle
    /\ AnalysisIdle
    /\ CliIdle
    /\ file \in [exists : BOOLEAN, readable : SUBSET EncodingNames]
    /\ kwargs \in [encoding : {"absent", "utf-8", "cp1252"}]
    /\ detected \in {"utf-8", "latin-1", "Windows-1252"}
    /\ encodings_to_try = <<>>
    /\ reads = <<>>
    /\ metadata = [encoding |-> "none"]
    /\ loader_pc = "start"

LoaderSpec == LoaderInit /\ [][LoaderNext]_vars

(***************************************************************************)
(* run_complete_analysis                                                   *)
(***************************************************************************)
\* Step1Succeeded accepting any result that is not empty
Step1Succeeded_AnyResult(outcome) == outcome \in {"differences", "summary"}

\* if result and 'differences_file' in result; export_differences returns
\* a dict with 'differences_file' ("differences"), {'summary': ...} when it
\* found no differences ("summary"), or raises
Step1Succeeded(outcome) == outcome = "differences"

\* if export_df is not None; the import and the call raise, or the call
\* returns None or a DataFrame
Step2Succeeded(outcome) == outcome = "data"

\* step 1 unless skipped: return False when export_differences raises or
\* its result has no differences file
run_step1 ==
    /\ analysis_pc = "start"
    /\ IF args.skip_comparison
       THEN /\ differences_file' = "None"
            /\ analysis_pc' = "step2"
            /\ UNCHANGED <<steps, returned>>
       ELSE /\ steps' = Append(steps, "step1")
            /\ IF Step1Succeeded(step1)
               THEN /\ differences_file' = "differences_file"
                    /\ analysis_pc' = "step2"
                    /\ UNCHANGED returned
               ELSE /\ returned' = "False"
                    /\ analysis_pc' = "returned"
                    /\ UNCHANGED differences_file
    /\ UNCHANGED <<args, step1, step2>>
    /\ UNCHANGED <<comparator_vars, loader_vars, cli_vars>>

\* step 2: return False when the import or the call raises or the call
\* returns None, True otherwise
run_step2 ==
    /\ analysis_pc = "step2"
    /\ steps' = Append(steps, "step2")
    /\ returned' = IF Step2Succeeded(step2) THEN "True" ELSE "False"
    /\ analysis_pc' = "returned"
    /\ UNCHANGED <<args, step1, step2, differences_file>>
    /\ UNCHANGED <<comparator_vars, loader_vars, cli_vars>>

AnalysisNext == run_step1 \/ run_step2

\* any arguments; export_differences finds differences, finds none or
\* raises; the import of export_formatted_differences raises ImportError
\* (analyze_differences.py defines no such function), and a module that
\* defines it raises, returns None or returns a DataFrame
AnalysisInit ==
    /\ ComparatorIdle
    /\ LoaderIdle
    /\ CliIdle
    /\ args \in [fund_alias : {"pi", "xp"}, reference_date : {"2025-05-30", "2025-06-30"},
                  output_format : {"excel", "csv"}, skip_comparison : BOOLEAN]
    /\ step1 \in {"differences", "summary", "raises"}
    /\ step2 \in {"ImportError", "raises", "None", "data"}
    /\ steps = <<>>
    /\ differences_file = "unbound"
    /\ analysis_pc = "start"
    /\ returned = "none"

AnalysisSpec == AnalysisInit /\ [][AnalysisNext]_vars

(***************************************************************************)
(* The compare command: configuration file and command-line options        *)
(***************************************************************************)
\* tolerances count units of 1e-10: the default of --tolerance, and of
\* CSVComparator's float_tolerance
DefaultTolerance == 1

\* dict.get(key, default)
Get(d, key, default) == IF key \in DOMAIN d THEN d[key] ELSE default

\* d[key] = value
Put(d, key, value) == [k \in DOMAIN d \cup {key} |-> IF k = key THEN value ELSE d[k]]

Passed(av, option) == option \in DOMAIN av

\* the parameters click hands to compare: a flag is True when passed and
\* its default otherwise (False, but True for --ignore-whitespace); an
\* option is its value when passed and its default otherwise (None, but
\* 1e-10 for --tolerance)
ignore_case_param(av) == Passed(av, "--ignore-case")

ignore_whitespace_param(av) == Passed(av, "--ignore-whitespace") \/ TRUE

tolerance_param(av) == Get(av, "--tolerance", DefaultTolerance)

\* Python's truth value of a float
Truthy(number) == number # 0

\* config_dict = {}; if config: config_dict = json.load(f)
LoadedConfig(av, json) == IF Passed(av, "--config") THEN json ELSE EmptyDict

\* if ignore_case: ...; if ignore_whitespace: ...; if tolerance: ...;
\* if ignore_columns: ...
OverrideConfig(av, d) ==
    LET d1 == IF ignore_case_param(av) THEN Put(d, "ignore_case", TRUE) ELSE d
        d2 == IF ignore_whitespace_param(av) THEN Put(d1, "ignore_whitespace", TRUE) ELSE d1
        d3 == IF Truthy(tolerance_param(av))
              THEN Put(d2, "float_tolerance", tolerance_param(av)) ELSE d2
        d4 == IF Passed(av, "--ignore-columns")
              THEN Put(d3, "ignore_columns", av["--ignore-columns"]) ELSE d3
    IN  d4

\* CSVComparator.__init__: the settings the comparison runs with
ComparatorSettings(d) ==
    [float_tolerance   |-> Get(d, "float_tolerance", DefaultTolerance),
     ignore_case       |-> Get(d, "ignore_case", FALSE),
     ignore_whitespace |-> Get(d, "ignore_whitespace", TRUE),
     ignore_columns    |-> Get(d, "ignore_columns", {})]

\* compare, up to comparator = CSVComparator(config_dict)
compare ==
    /\ cli_pc = "start"
    /\ config_dict' = OverrideConfig(argv, LoadedConfig(argv, config_json))
    /\ settings' = ComparatorSettings(config_dict')
    /\ cli_pc' = "configured"
    /\ UNCHANGED <<argv, config_json>>
    /\ UNCHANGED <<comparator_vars, loader_vars, analysis_vars>>

CliNext == compare

\* the dicts with no entry for key or one of the values
Entry(key, values) == {EmptyDict} \cup {key :> v : v \in values}

CliTolerances == {0, DefaultTolerance, 5}

\* any options passed or not; a configuration file with any of the three
\* settings, the empty dict when --config is not passed
CliInit ==
    /\ ComparatorIdle
    /\ LoaderIdle
    /\ AnalysisIdle
    /\ argv \in {a @@ b @@ c @@ d @@ e :
                    a \in Entry("--config", {TRUE}),
                    b \in Entry("--ignore-case", {TRUE}),
                    c \in Entry("--ignore-whitespace", {TRUE}),
                    d \in Entry("--tolerance", CliTolerances),
                    e \in Entry("--ignore-columns", {{"w"}})}
    /\ config_json \in {a @@ b @@ c :
                    a \in Entry("float_tolerance", CliTolerances),
                    b \in Entry("ignore_whitespace", BOOLEAN),
                    c \in Entry("ignore_case", BOOLEAN)}
    /\ Passed(argv, "--config") \/ config_json = EmptyDict
    /\ config_dict = EmptyDict
    /\ settings = EmptyDict
    /\ cli_pc = "start"

CliSpec == CliInit /\ [][CliNext]_vars

(***************************************************************************)
(* Properties                                                              *)
(***************************************************************************)
\* the two datasets as the strategies receive them
Pre1 == _preprocess_dataframe(df1, config).df

Pre2 == _preprocess_dataframe(df2, config).df

CommonCols == Pre1.columns \cap Pre2.columns

Keys == config.key_columns

ValueCols == CommonCols \ SeqToSet(Keys)

\* the call returned a result of the keyed join
KeyedRan ==
    /\ pc = "done"
    /\ result.strategy = "full"
    /\ "common_cession_records" \in DOMAIN result.summary

\* a key cell up to the int / float distinction
KeyNorm(v) ==
    IF v.t \in {"int", "float", "bool"} THEN [t |-> "num", n |-> v.n, s |-> <<>>] ELSE v

KeyTuple(row) == [n \in 1..Len(Keys) |-> KeyNorm(row[Keys[n]])]

\* the pairs (row of A, row of B) that have the same key tuple
MatchedPairs ==
    {p \in (1..Len(Pre1.rows)) \X (1..Len(Pre2.rows)) :
        KeyTuple(Pre1.rows[p[1]]) = KeyTuple(Pre2.rows[p[2]])}

CellA(p, c) == Pre1.rows[p[1]][c]

CellB(p, c) == Pre2.rows[p[2]][c]

IsNumber(v) == v.t \in {"int", "float"}

\* the joined key value of a matched pair
PairKey(p) == KeyStr(Pre1, Pre2, Keys, RowDtype(Pre1, Pre2, Keys, ValueCols), p)

ReportedRecords == result.differences.different_records

\* column c is listed as a difference under the key of pair p
Reported(p, c) ==
    /\ PairKey(p) \in DOMAIN ReportedRecords
    /\ c \in DOMAIN ReportedRecords[PairKey(p)]

\* no other matched pair has the joined key value of p
UniqueKey(p) == \A q \in MatchedPairs : PairKey(q) = PairKey(p) => q = p

\* a stored value is the cell it was taken from
SameCell(stored, cell) == (isna(stored) /\ isna(cell)) \/ PyEq(stored, cell)

KeysMissing ==
    \/ Keys = <<>>
    \/ \E k \in SeqToSet(Keys) : k \notin Pre1.columns \/ k \notin Pre2.columns

C2_OneSidedNullReported ==
    KeyedRan =>
        \A p \in MatchedPairs : \A c \in ValueCols :
            /\ (isna(CellA(p, c)) # isna(CellB(p, c))) => Reported(p, c)
            /\ (isna(CellA(p, c)) /\ isna(CellB(p, c)) /\ UniqueKey(p)) => ~Reported(p, c)

\* C3: two non-null numeric values of a non-key common column are equal iff
\* |a - b| <= floatTolerance.
C3_NumbersWithinTolerance ==
    KeyedRan =>
        \A p \in MatchedPairs : \A c \in ValueCols :
            (UniqueKey(p) /\ IsNumber(CellA(p, c)) /\ IsNumber(CellB(p, c))) =>
                (Reported(p, c) <=>
                    Abs(CellA(p, c).n - CellB(p, c).n) > config.float_tolerance)

\* C4: every difference entry stores the internal value, the fund value and
\* a delta that is internal - fund for two non-null numbers and "N/A" in
\* every other case, differing text or boolean values included (so the call
\* returns for them).
C4_DeltaOrNA ==
    /\ pc = "raised" => result.err # "TypeError"
    /\ KeyedRan =>
        \A k \in DOMAIN ReportedRecords : \A c \in DOMAIN ReportedRecords[k] :
            LET e == ReportedRecords[k][c]
            IN  /\ \E p \in MatchedPairs :
                      /\ PairKey(p) = k
                      /\ SameCell(e.internal, CellA(p, c))
                      /\ SameCell(e.fund, CellB(p, c))
                /\ IF IsNumber(e.internal) /\ IsNumber(e.fund)
                   THEN IsNumber(e.difference) /\ e.difference.n = e.internal.n - e.fund.n
                   ELSE e.difference = NA

RECURSIVE SumOfProducts(_)
SumOfProducts(keytuples) ==
    IF keytuples = {} THEN 0
    ELSE LET k == CHOOSE x \in keytuples : TRUE
         IN  Cardinality({i \in 1..Len(Pre1.rows) : KeyTuple(Pre1.rows[i]) = k})
               * Cardinality({j \in 1..Len(Pre2.rows) : KeyTuple(Pre2.rows[j]) = k})
             + SumOfProducts(keytuples \ {k})

\* C5: the join pairs every row of A with every row of B of the same key
\* tuple: common_cession_records is the sum over the key tuples k of
\* countA(k) * countB(k).
C5_JoinMultiplies ==
    KeyedRan =>
        result.summary.common_cession_records =
            SumOfProducts({KeyTuple(Pre1.rows[i]) : i \in 1..Len(Pre1.rows)})

\* one key twice in A and three times in B: 6 matched pairs
C5_Witness ==
    /\ KeyedRan
    /\ Len(Pre1.rows) = 2
    /\ Len(Pre2.rows) = 3
    /\ \A i \in 1..2 : Pre1.rows[i].id = PyInt(1)
    /\ \A j \in 1..3 : Pre2.rows[j].id = PyInt(1)
    /\ result.summary.common_cession_records = 6

\* C6: for every matched pair with an unequal non-key common column, one
\* entry under the pair's joined key lists every unequal field with that
\* pair's own internal and fund values.  (Unequal as diff_mask decides it.)
C6_Completeness ==
    KeyedRan =>
        \A p \in MatchedPairs : \A c \in ValueCols :
            DiffMask(Pre1, Pre2, config, p, c) =>
                /\ Reported(p, c)
                /\ SameCell(ReportedRecords[PairKey(p)][c].internal, CellA(p, c))
                /\ SameCell(ReportedRecords[PairKey(p)][c].fund, CellB(p, c))

\* C7: identical_records = matched pairs - entries of different_records;
\* different_records and total_different_records are that number of
\* entries; data_identical iff it is 0.
C7_SummaryCounts ==
    KeyedRan =>
        LET entries == Cardinality(DOMAIN ReportedRecords)
        IN  /\ result.summary.identical_records
                 = result.summary.common_cession_records - entries
            /\ result.summary.different_records = entries
            /\ result.differences.total_different_records = entries
            /\ result.summary.data_identical <=> (entries = 0)

\* some records differ in both value columns and others are identical
C7_Witness ==
    /\ KeyedRan
    /\ result.summary.identical_records >= 1
    /\ \E k \in DOMAIN ReportedRecords : DOMAIN ReportedRecords[k] = {"v", "w"}

\* C8: match_percentage = identical_records / matched * 100 when matched > 0
\* and 0 otherwise; coverage_percentage = matched / totalB * 100 when B has
\* rows and 0 otherwise; no call ends in a division by zero.
C8_Percentages ==
    /\ pc = "raised" => result.err # "ZeroDivisionError"
    /\ KeyedRan =>
        LET matched == Cardinality(MatchedPairs)
            match == result.summary.match_percentage
            coverage == result.summary.coverage_percentage
        IN  /\ match.den > 0
            /\ coverage.den > 0
            /\ IF matched > 0
               THEN match.num * matched
                       = result.summary.identical_records * 100 * match.den
               ELSE match.num = 0
            /\ IF Len(df2.rows) > 0
               THEN coverage.num * Len(df2.rows) = matched * 100 * coverage.den
               ELSE coverage.num = 0

\* A has no rows and B has rows: both percentages are 0
C8_Witness ==
    /\ KeyedRan
    /\ Len(df1.rows) = 0
    /\ Len(df2.rows) >= 2
    /\ result.summary.match_percentage.num = 0
    /\ result.summary.coverage_percentage.num = 0

\* C9: coverage_percentage is the percentage of the rows of B that have at
\* least one match in A, so it lies in [0, 100].
C9_CoverageOfFundRows ==
    KeyedRan =>
        LET coverage == result.summary.coverage_percentage
            matchedB == {j \in 1..Len(Pre2.rows) : \E p \in MatchedPairs : p[2] = j}
        IN  /\ coverage.num >= 0
            /\ coverage.num <= 100 * coverage.den
            /\ coverage.num * Len(Pre2.rows)
                  = Cardinality(matchedB) * 100 * coverage.den

\* C10: a mode that is none of SCHEMA, FULL, STATISTICAL, SUBSET makes the
\* call fail with an error and runs none of the four strategies.
C10_UnknownModeFails ==
    (comparison_type \notin ComparisonType /\ pc # "start") =>
        (pc = "raised" /\ result.strategy = "none")

\* both datasets were preprocessed without an error
PreprocessOk ==
    /\ _preprocess_dataframe(df1, config).err = "none"
    /\ _preprocess_dataframe(df2, config).err = "none"

\* C11: for datasets in which every row has a value for every column, keyed
\* FULL comparison returns a result and never raises, also when matched
\* pairs differ in a text or boolean column and when the key column has
\* different types on the two sides.
C11_KeyedNeverRaises ==
    (comparison_type = "full" /\ pc # "start" /\ PreprocessOk /\ ~KeysMissing) =>
        pc = "done"

\* C12: when the preprocessed datasets share no column, FULL mode returns
\* data_identical = false with the no-common-columns reason (also when key
\* columns are configured and missing) and SUBSET mode returns
\* is_subset = false with its no-common-columns reason; neither raises.
C12_NoCommonColumns ==
    (pc # "start" /\ PreprocessOk /\ CommonCols = {}) =>
        /\ comparison_type = "full" =>
              /\ pc = "done"
              /\ result.summary = [data_identical |-> FALSE,
                                   reason |-> "No common columns for comparison"]
              /\ DOMAIN result.differences = {}
        /\ comparison_type = "subset" =>
              /\ pc = "done"
              /\ result.summary = [is_subset |-> FALSE, reason |-> "No common columns"]
              /\ DOMAIN result.differences = {}

\* FULL mode, key columns configured, both datasets have rows and columns
\* but none in common
C12_Witness ==
    /\ pc = "done"
    /\ comparison_type = "full"
    /\ Keys # <<>>
    /\ Pre1.columns # {}
    /\ Pre2.columns # {}
    /\ CommonCols = {}
    /\ Len(Pre1.rows) > 0
    /\ Len(Pre2.rows) > 0
    /\ result.summary.reason = "No common columns for comparison"

\* C13: compare_dataframes never changes its two input datasets or the
\* configuration, in any mode and for any configuration: every step leaves
\* df1, df2 and config as they were (preprocessing works on copies).
C13_InputsUnchanged ==
    [][df1' = df1 /\ df2' = df2 /\ config' = config]_vars

\* the call is over, preprocessing wrote stripped or lower-cased text into
\* the frame it was given, with no column dropped before
C13_Witness ==
    /\ pc # "start"
    /\ PreprocessOk
    /\ config.ignore_columns = {}
    /\ config.ignore_whitespace
    /\ config.ignore_case
    /\ Pre1.rows # df1.rows
    /\ Pre2.rows # df2.rows

\* preprocessing a preprocessed dataset again returns it as it is
Idempotent(df) ==
    LET p == _preprocess_dataframe(df, config)
    IN  p.err = "none" => _preprocess_dataframe(p.df, config) = [err |-> "none", df |-> p.df]

\* C14: preprocessing is idempotent: for every dataset D and every
\* configuration, preprocess(preprocess(D)) = preprocess(D).
C14_PreprocessIdempotent ==
    pc # "start" => (Idempotent(df1) /\ Idempotent(df2))

\* text with whitespace and a capital, stripped and lower-cased beside a
\* number of the same column
C14_Witness ==
    /\ pc # "start"
    /\ PreprocessOk
    /\ config.ignore_whitespace
    /\ config.ignore_case
    /\ "w" \in Pre1.columns
    /\ \E i \in 1..Len(df1.rows) :
          df1.rows[i].w = PyStr(<<" ", "X">>) /\ Pre1.rows[i].w = PyStr(<<"x">>)
    /\ \E i \in 1..Len(df1.rows) : df1.rows[i].w = PyFloat(0)

Ignored == config.ignore_columns

MissingKeyReason == "Key columns (NumeroContrato) required for cession comparison"

\* C15: both inputs are preprocessed before the strategy runs and
\* preprocessing removes exactly the ignored columns that exist: no ignored
\* column appears in the schema output, in value_columns_compared or in the
\* subset and statistical results, and an ignored key column makes FULL mode
\* report the missing-key-columns reason when the preprocessed datasets
\* still share a column.
C15_IgnoredColumnsDropped ==
    (pc # "start" /\ PreprocessOk) =>
        /\ Pre1.columns = df1.columns \ Ignored
        /\ Pre2.columns = df2.columns \ Ignored
        /\ (pc = "done" /\ result.strategy = "schema") =>
              /\ result.differences.missing_in_df1 \cap Ignored = {}
              /\ result.differences.missing_in_df2 \cap Ignored = {}
              /\ DOMAIN result.differences.type_mismatches \cap Ignored = {}
              /\ result.summary.total_columns_df1 = Cardinality(df1.columns \ Ignored)
              /\ result.summary.total_columns_df2 = Cardinality(df2.columns \ Ignored)
        /\ KeyedRan => result.differences.value_columns_compared \cap Ignored = {}
        /\ (pc = "done" /\ result.strategy = "subset"
               /\ "common_columns" \in DOMAIN result.summary) =>
              result.summary.common_columns
                 = Cardinality((df1.columns \cap df2.columns) \ Ignored)
        /\ (pc = "done" /\ result.strategy = "statistical") =>
              /\ DOMAIN result.differences.numeric_differences \cap Ignored = {}
              /\ DOMAIN result.statistics.df1_stats = df1.columns \ Ignored
              /\ DOMAIN result.statistics.df2_stats = df2.columns \ Ignored
              /\ DOMAIN result.statistics.df1_nulls = df1.columns \ Ignored
              /\ DOMAIN result.statistics.df2_nulls = df2.columns \ Ignored
              /\ result.summary.columns_df1 = Cardinality(df1.columns \ Ignored)
              /\ result.summary.columns_df2 = Cardinality(df2.columns \ Ignored)
        /\ (comparison_type = "full" /\ CommonCols # {}
               /\ \E k \in SeqToSet(Keys) : k \in Ignored) =>
              /\ pc = "done"
              /\ result.summary = [data_identical |-> FALSE, reason |-> MissingKeyReason]

\* the key column exists in both datasets with rows and is ignored, another
\* column is still common
C15_Witness ==
    /\ pc = "done"
    /\ comparison_type = "full"
    /\ Keys = <<"id">>
    /\ "id" \in Ignored
    /\ "id" \in df1.columns \cap df2.columns
    /\ CommonCols # {}
    /\ Len(df1.rows) > 0
    /\ Len(df2.rows) > 0
    /\ result.summary.reason = MissingKeyReason

\* C15 as stated: in FULL mode a key column of both datasets that is listed
\* in ignoreColumns always gives the missing-key-columns reason.
C15_IgnoredKeyReason ==
    (comparison_type = "full" /\ pc # "start" /\ PreprocessOk
       /\ \E k \in SeqToSet(Keys) : k \in Ignored \cap df1.columns \cap df2.columns) =>
        /\ pc = "done"
        /\ result.summary.reason = MissingKeyReason

\* the text a string cell holds after preprocessing
PreprocessedText(chars) ==
    LET stripped == IF config.ignore_whitespace THEN Strip(chars) ELSE chars
    IN  IF config.ignore_case THEN Lower(stripped) ELSE stripped

\* every cell of a column that is kept: text is stripped and lower-cased
\* as configured, every other value is as it was
OnlyTextChanged(df, pre) ==
    \A i \in 1..Len(df.rows) : \A c \in pre.columns :
        IF df.rows[i][c].t = "str"
        THEN pre.rows[i][c] = PyStr(PreprocessedText(df.rows[i][c].s))
        ELSE pre.rows[i][c] = df.rows[i][c]

\* C16: preprocessing changes only text values (strip when ignoreWhitespace,
\* then lower-case when ignoreCase) and leaves every numeric, boolean and
\* null value unchanged, also in a text-typed column that holds such values
\* beside text.
C16_OnlyTextChanges ==
    (pc # "start" /\ PreprocessOk) =>
        /\ Len(Pre1.rows) = Len(df1.rows)
        /\ Len(Pre2.rows) = Len(df2.rows)
        /\ OnlyTextChanged(df1, Pre1)
        /\ OnlyTextChanged(df2, Pre2)

\* the columns and types of the two datasets without the ignored columns
ColsA == df1.columns \ Ignored

ColsB == df2.columns \ Ignored

\* C17: schema mode reports missing_in_df2 = columns(A) - columns(B),
\* missing_in_df1 = columns(B) - columns(A) and type_mismatches = exactly the
\* common columns whose types differ; columns_match iff both missing sets
\* are empty, types_match iff there is no mismatch, and common_columns plus
\* the columns missing on the other side is the column count of each side.
C17_SchemaReport ==
    (comparison_type = "schema" /\ pc # "start" /\ PreprocessOk) =>
        /\ pc = "done"
        /\ result.differences.missing_in_df2 = ColsA \ ColsB
        /\ result.differences.missing_in_df1 = ColsB \ ColsA
        /\ DOMAIN result.differences.type_mismatches
              = {c \in ColsA \cap ColsB : df1.dtypes[c] # df2.dtypes[c]}
        /\ \A c \in DOMAIN result.differences.type_mismatches :
              result.differences.type_mismatches[c]
                 = [df1 |-> df1.dtypes[c], df2 |-> df2.dtypes[c]]
        /\ result.summary.columns_match <=> (ColsA \ ColsB = {} /\ ColsB \ ColsA = {})
        /\ result.summary.types_match
              <=> (\A c \in ColsA \cap ColsB : df1.dtypes[c] = df2.dtypes[c])
        /\ result.summary.common_columns + Cardinality(ColsA \ ColsB)
              = result.summary.total_columns_df1
        /\ result.summary.common_columns + Cardinality(ColsB \ ColsA)
              = result.summary.total_columns_df2
        /\ result.summary.total_columns_df1 = Cardinality(ColsA)
        /\ result.summary.total_columns_df2 = Cardinality(ColsB)

\* columns {id, v} against {id, w}
C17_Witness ==
    /\ pc = "done"
    /\ comparison_type = "schema"
    /\ ColsA = {"id", "v"}
    /\ ColsB = {"id", "w"}
    /\ result.differences.missing_in_df1 = {"w"}
    /\ result.differences.missing_in_df2 = {"v"}
    /\ result.summary.columns_match = FALSE

\* a row over the common columns, numbers up to the int / float distinction
RowTuple(row) == [c \in CommonCols |-> KeyNorm(row[c])]

\* the distinct row tuples of a preprocessed dataset
RowSet(pre) == {RowTuple(pre.rows[i]) : i \in 1..Len(pre.rows)}

\* the subset summary is the one of the two de-duplicated row sets
SubsetBySets ==
    /\ result.summary.is_subset <=> (RowSet(Pre1) \subseteq RowSet(Pre2))
    /\ result.summary.unique_rows_df1 = Cardinality(RowSet(Pre1))
    /\ result.summary.unique_rows_df2 = Cardinality(RowSet(Pre2))
    /\ result.summary.matching_rows = Cardinality(RowSet(Pre1) \cap RowSet(Pre2))
    /\ result.summary.matching_rows <= result.summary.unique_rows_df1
    /\ result.summary.matching_rows <= result.summary.unique_rows_df2
    /\ Len(Pre1.rows) = 0 => result.summary.is_subset

\* C18: in SUBSET mode with a common column, is_subset iff every distinct
\* row tuple of A over the common columns occurs in B; matching_rows is the
\* size of the intersection of the two de-duplicated row sets, at most
\* min(unique_rows_df1, unique_rows_df2); an A without rows is a subset of
\* any B.
C18_SubsetBySets ==
    (comparison_type = "subset" /\ pc # "start" /\ PreprocessOk /\ CommonCols # {}) =>
        (pc = "done" /\ SubsetBySets)

\* every SUBSET result that is returned is the one of the row sets
SubsetResultsBySets ==
    (comparison_type = "subset" /\ pc = "done" /\ CommonCols # {}) => SubsetBySets

\* the non-null numbers of column c, by row
NonNull(pre, c) == {i \in 1..Len(pre.rows) : notna(pre.rows[i][c])}

RECURSIVE Total(_, _, _)
Total(pre, c, rows) ==
    IF rows = {} THEN 0
    ELSE LET i == CHOOSE x \in rows : TRUE
         IN  pre.rows[i][c].n + Total(pre, c, rows \ {i})

\* sum over the non-null x of (n * x - sum)^2, that is n^2 * sum (x - mean)^2
RECURSIVE SquaredDeviations(_, _, _, _, _)
SquaredDeviations(pre, c, rows, n, sum) ==
    IF rows = {} THEN 0
    ELSE LET i == CHOOSE x \in rows : TRUE
             d == n * pre.rows[i][c].n - sum
         IN  d * d + SquaredDeviations(pre, c, rows \ {i}, n, sum)

\* a reported statistic is the mean of column c (NaN without numbers)
IsMeanOf(stat, pre, c) ==
    LET n == Cardinality(NonNull(pre, c))
    IN  IF n = 0 THEN stat.nan
        ELSE ~stat.nan /\ stat.den > 0
             /\ stat.num * n = Total(pre, c, NonNull(pre, c)) * stat.den

\* a reported statistic is the sample variance of column c (NaN for fewer
\* than two numbers): sum (x - mean)^2 / (n - 1)
IsVarianceOf(stat, pre, c) ==
    LET n == Cardinality(NonNull(pre, c))
        sum == Total(pre, c, NonNull(pre, c))
    IN  IF n < 2 THEN stat.nan
        ELSE ~stat.nan /\ stat.den > 0
             /\ stat.num * n * n * (n - 1)
                   = SquaredDeviations(pre, c, NonNull(pre, c), n, sum) * stat.den

\* a reported statistic is |meanA - meanB| of column c
IsMeanDifference(stat, c) ==
    LET nA == Cardinality(NonNull(Pre1, c))
        nB == Cardinality(NonNull(Pre2, c))
        sA == Total(Pre1, c, NonNull(Pre1, c))
        sB == Total(Pre2, c, NonNull(Pre2, c))
    IN  IF nA = 0 \/ nB = 0 THEN stat.nan
        ELSE ~stat.nan /\ stat.den > 0
             /\ stat.num * nA * nB = Abs(sA * nB - sB * nA) * stat.den

NumericInA(c) == c \in ColsA /\ df1.dtypes[c] \in NumericDtypes

NumericInB(c) == c \in ColsB /\ df2.dtypes[c] \in NumericDtypes

StatisticalRan == pc = "done" /\ result.strategy = "statistical"

C20_OneSidedNumericSkipped ==
    StatisticalRan =>
        /\ \A c \in ColsA \cap ColsB :
              (NumericInA(c) # NumericInB(c)) =>
                 c \notin DOMAIN result.differences.numeric_differences
        /\ \A c \in DOMAIN result.differences.numeric_differences :
              "error" \notin DOMAIN result.differences.numeric_differences[c]

\* the columns the two datasets have in common, as they were passed
SharedCols == df1.columns \cap df2.columns

\* C21: keyed comparison looks only at the columns present in both
\* datasets: the FULL-mode summary and differences are those of the two
\* datasets without their one-sided columns (so no value of a one-sided
\* column, and neither its presence, changes them), and
\* value_columns_compared is the common columns minus the key columns.
C21_OnlyCommonColumns ==
    (comparison_type = "full" /\ pc # "start" /\ PreprocessOk) =>
        /\ result = CompareDataframes(Restrict(df1, SharedCols), Restrict(df2, SharedCols),
                                      comparison_type, config)
        /\ KeyedRan =>
              result.differences.value_columns_compared = CommonCols \ SeqToSet(Keys)

\* the join ran on datasets with rows, A has a text column B has not, and a
\* value column is common
C21_Witness ==
    /\ KeyedRan
    /\ "w" \in df1.columns \ df2.columns
    /\ "v" \in SharedCols
    /\ Len(df1.rows) > 0
    /\ Len(df2.rows) > 0
    /\ result.differences.value_columns_compared = {"v"}
    /\ Cardinality(DOMAIN ReportedRecords) = 1

\* C22: FULL mode without key columns compares the two dataframes row by
\* row: two identical dataframes of n rows give data_identical = true,
\* identical_rows = n and difference_percentage = 0; dataframes that differ
\* in k > 0 rows give data_identical = false and total_different_rows = k.
C22_RowByRowWithoutKeys ==
    (comparison_type = "full" /\ pc # "start" /\ PreprocessOk
       /\ Keys = <<>> /\ Ignored = {} /\ df1.columns # {} /\ Len(df1.rows) > 0) =>
        /\ pc = "done"
        /\ df1 = df2 =>
              /\ result.summary.data_identical
              /\ "identical_rows" \in DOMAIN result.summary
              /\ result.summary.identical_rows = Len(df1.rows)
        /\ (df1.columns = df2.columns /\ Len(df1.rows) = Len(df2.rows) /\ df1 # df2) =>
              /\ ~result.summary.data_identical
              /\ "total_different_rows" \in DOMAIN result.summary

\* the result of the same call with the two datasets exchanged
Swapped == CompareDataframes(df2, df1, comparison_type, config)

\* a stored delta and its negation
Negated(d, e) ==
    IF IsNumber(d) THEN IsNumber(e) /\ e.n = -d.n ELSE e = d

\* the swapped call reports the same counts, keys and fields, with
\* internal and fund exchanged and the numeric deltas negated
SwapSymmetric ==
    LET sw == Swapped
        swapped_records == sw.differences.different_records
    IN  /\ sw.err = "none"
        /\ sw.summary.common_cession_records = result.summary.common_cession_records
        /\ sw.summary.identical_records = result.summary.identical_records
        /\ sw.summary.different_records = result.summary.different_records
        /\ sw.summary.data_identical = result.summary.data_identical
        /\ sw.summary.match_percentage = result.summary.match_percentage
        /\ DOMAIN swapped_records = DOMAIN ReportedRecords
        /\ \A k \in DOMAIN ReportedRecords :
              /\ DOMAIN swapped_records[k] = DOMAIN ReportedRecords[k]
              /\ \A c \in DOMAIN ReportedRecords[k] :
                    /\ SameCell(swapped_records[k][c].internal, ReportedRecords[k][c].fund)
                    /\ SameCell(swapped_records[k][c].fund, ReportedRecords[k][c].internal)
                    /\ Negated(ReportedRecords[k][c].difference,
                               swapped_records[k][c].difference)

\* C23: keyed comparison is symmetric under swapping the inputs:
\* compare(B, A) reports the same matched pairs, different_records keys and
\* fields, identical_records, different_records, data_identical and
\* match_percentage as compare(A, B), with internal and fund exchanged and
\* every numeric delta negated.
C23_SwapSymmetric ==
    KeyedRan => SwapSymmetric

\* no key tuple occurs twice in A or twice in B
KeysUnique ==
    /\ \A i, j \in 1..Len(Pre1.rows) :
          KeyTuple(Pre1.rows[i]) = KeyTuple(Pre1.rows[j]) => i = j
    /\ \A i, j \in 1..Len(Pre2.rows) :
          KeyTuple(Pre2.rows[i]) = KeyTuple(Pre2.rows[j]) => i = j

\* the symmetry holds whenever no key is repeated within a dataset
SwapSymmetricForUniqueKeys ==
    (KeyedRan /\ KeysUnique) => SwapSymmetric

\* the matched pairs the comparison found equal in every value column
EqualPairs ==
    {p \in MatchedPairs : \A c \in ValueCols : ~DiffMask(Pre1, Pre2, config, p, c)}

\* C24: identical_records is the number of matched pairs in which every
\* non-key common column is equal, also when a key value is repeated so
\* that several matched pairs share one joined key value.
C24_IdenticalPairsCounted ==
    KeyedRan => result.summary.identical_records = Cardinality(EqualPairs)

\* C25: every result of the join has 0 <= identical_records <= matched
\* pairs, identical_records + different_records = matched pairs,
\* 0 <= match_percentage <= 100 and matched pairs <= total_internal_records
\* * total_fund_records.
C25_KeyedInvariants ==
    KeyedRan =>
        LET matched == result.summary.common_cession_records
            match == result.summary.match_percentage
        IN  /\ matched = Cardinality(MatchedPairs)
            /\ 0 <= result.summary.identical_records
            /\ result.summary.identical_records <= matched
            /\ result.summary.identical_records + result.summary.different_records
                  = matched
            /\ match.den > 0
            /\ 0 <= match.num
            /\ match.num <= 100 * match.den
            /\ matched <= result.summary.total_internal_records
                             * result.summary.total_fund_records
            /\ result.summary.total_internal_records = Len(df1.rows)
            /\ result.summary.total_fund_records = Len(df2.rows)

\* a repeated key: four matched pairs, one entry of different_records
C25_Witness ==
    /\ KeyedRan
    /\ result.summary.common_cession_records = 4
    /\ result.summary.different_records = 1
    /\ result.summary.identical_records = 3

\* C26: data_identical depends only on the matched pairs: with zero
\* matched pairs, or with rows of either side unmatched, data_identical is
\* true as long as no matched pair differs, and identical_records = 0 and
\* match_percentage = 0 when nothing matched.
C26_UnmatchedRowsIgnored ==
    KeyedRan =>
        /\ (EqualPairs = MatchedPairs) => result.summary.data_identical
        /\ (MatchedPairs = {}) =>
              /\ result.summary.data_identical
              /\ result.summary.identical_records = 0
              /\ result.summary.different_records = 0
              /\ result.summary.match_percentage.num = 0
              /\ DOMAIN ReportedRecords = {}

\* both datasets have rows and no key value in common
C26_Witness ==
    /\ KeyedRan
    /\ Len(Pre1.rows) = 2
    /\ Len(Pre2.rows) > 0
    /\ MatchedPairs = {}
    /\ result.summary.data_identical
    /\ result.summary.match_percentage.num = 0

\* the matched pairs that have an entry: some value column differs
DifferingPairs == MatchedPairs \ EqualPairs

\* C27: the joined key string of a difference entry identifies one key
\* tuple: two matched pairs with different key tuples are never stored
\* under the same different_records key, also with several key columns and
\* key values that contain the separator "_".
C27_KeyStringIdentifiesTuple ==
    KeyedRan =>
        \A p, q \in DifferingPairs :
            PairKey(p) = PairKey(q) => KeyTuple(Pre1.rows[p[1]]) = KeyTuple(Pre1.rows[q[1]])

\* the encodings the claim has the loader try, in order
Candidates == EncodingsToTry(kwargs, detected)

IsPrefix(q, full) == Len(q) <= Len(full) /\ \A i \in 1..Len(q) : q[i] = full[i]

\* the reads so far are the first candidates in order, each once; a call
\* that returned did so on the first encoding that reads the file and put
\* it in the metadata; ValueError only after every candidate failed
EncodingFallback ==
    /\ loader_pc \in {"loop", "returned", "ValueError"} => IsPrefix(reads, Candidates)
    /\ loader_pc = "returned" =>
          /\ reads # <<>>
          /\ metadata.encoding = reads[Len(reads)]
          /\ reads[Len(reads)] \in file.readable
          /\ \A i \in 1..(Len(reads) - 1) : reads[i] \notin file.readable
    /\ loader_pc = "ValueError" =>
          /\ reads = Candidates
          /\ \A i \in 1..Len(Candidates) : Candidates[i] \notin file.readable
    /\ loader_pc = "FileNotFoundError" => ~file.exists
    /\ (loader_pc \notin {"start", "FileNotFoundError"}) => file.exists

\* C28: load_csv tries the first encoding (the 'encoding' argument if
\* given, else the detected one) and, when a read fails, the other
\* supported encodings in order, each at most once; it returns the first
\* successful load with metadata['encoding'] the encoding used for that
\* read, raises ValueError only after every candidate failed, and
\* FileNotFoundError if the path does not exist.
C28_EncodingFallback == EncodingFallback

\* the fallback works as claimed when no 'encoding' argument is given
FallbackWithoutEncodingArgument ==
    kwargs.encoding = "absent" => EncodingFallback

Ran(step) == \E i \in 1..Len(steps) : steps[i] = step

\* C29: run_complete_analysis runs step 2 only after step 1 returned a
\* result with a differences file, or when skip_comparison is set; it
\* returns True iff every executed step succeeded and step 2 returned
\* data, and returns False without running step 2 when step 1 raises or
\* finds no differences.
C29_StepsInOrder ==
    /\ Ran("step2") =>
          \/ args.skip_comparison /\ steps = <<"step2">>
          \/ ~args.skip_comparison /\ steps = <<"step1", "step2">> /\ step1 = "differences"
    /\ analysis_pc = "returned" =>
          /\ returned \in {"True", "False"}
          /\ returned = "True" <=>
                /\ Ran("step1") => step1 = "differences"
                /\ Ran("step2") /\ step2 = "data"
          /\ (~args.skip_comparison /\ step1 \in {"raises", "summary"}) =>
                returned = "False" /\ ~Ran("step2")

\* export_differences found no differences: False, and step 2 did not run
C29_Witness ==
    /\ analysis_pc = "returned"
    /\ ~args.skip_comparison
    /\ step1 = "summary"
    /\ steps = <<"step1">>
    /\ returned = "False"

\* the value the configuration file gives a setting is the one in effect
FromConfigFile(key) ==
    key \in DOMAIN config_json => settings[key] = config_json[key]

\* C30: in the compare command a value set in the configuration file is
\* the effective setting unless the corresponding option is given:
\* float_tolerance and ignore_whitespace from the file are used when
\* --tolerance / --ignore-whitespace are not passed, and an explicitly
\* passed --tolerance (0 included) overrides the value of the file.
C30_ConfigFileUnlessOption ==
    cli_pc = "configured" =>
        /\ ~Passed(argv, "--tolerance") => FromConfigFile("float_tolerance")
        /\ ~Passed(argv, "--ignore-whitespace") => FromConfigFile("ignore_whitespace")
        /\ ~Passed(argv, "--ignore-case") => FromConfigFile("ignore_case")
        /\ Passed(argv, "--tolerance") => settings.float_tolerance = argv["--tolerance"]

\* what the command does keep: --ignore-case, and a --tolerance that is
\* not 0
OptionsThatWork ==
    cli_pc = "configured" =>
        /\ ~Passed(argv, "--ignore-case") => FromConfigFile("ignore_case")
        /\ (Passed(argv, "--tolerance") /\ argv["--tolerance"] # 0) =>
              settings.float_tolerance = argv["--tolerance"]
        /\ settings.ignore_whitespace

====
